---- MODULE Spec2Model ----
(***************************************************************************)
(* Model of rust_03 (streamchat): the Diffie-Hellman handshake, the LCG    *)
(* stream cipher and the duplex chat loop of src/rust_03/src/main.rs.      *)
(*                                                                         *)
(* Machine integers.  TLC's integers are 32-bit signed, while the program  *)
(* computes in u32, u64 and u128.  A machine integer is therefore a        *)
(* little-endian sequence of bytes ("limbs"): 4 for u32, 8 for u64, 16 for *)
(* u128.  The arithmetic below is the schoolbook arithmetic on limbs; it   *)
(* keeps each type's width, so a wrapping operation wraps.                 *)
(***************************************************************************)
EXTENDS Integers, Sequences, FiniteSets, TLC

\* ------------------------------------------------------------------------
\* Bounds of the model
\* ------------------------------------------------------------------------

\* mod_pow harness: bases 0..MaxBase, exponents 0..MaxExp, moduli 2..MaxMod
\* (plus the wide operands of WideBases and WideMods).
MaxBase == 7
MaxExp == 9
MaxMod == 9

\* Diffie-Hellman harness: private keys 0..MaxKey (plus WideKeys).
MaxKey == 9

\* Cipher harness: calls made on the two instances together.
MaxCalls == 3

\* Connection: messages sent and empty lines skipped by the two peers
\* together, and the bytes one direction of the connection holds before a
\* write blocks.
MaxSends == 2
MaxSkips == 1

\* I/O errors and ends of input that happen to the two peers together.
MaxFaults == 1
ChanCap == 8

\* find_path: the cells of the largest grids (width * height <= MaxCells).
MaxCells == 6

\* ------------------------------------------------------------------------
\* Limb arithmetic (u32 / u64 / u128)
\* ------------------------------------------------------------------------

Byte == 0..255

\* No value yet: the empty limb sequence.
Null == <<>>

\* The w-limb value of a small natural n (n < 2^31).
Limbs(n, w) ==
    [i \in 1..w |->
        CASE i = 1 -> n % 256
          [] i = 2 -> (n \div 256) % 256
          [] i = 3 -> (n \div 65536) % 256
          [] i = 4 -> (n \div 16777216) % 256
          [] OTHER -> 0]

\* `x as uW`: zero-extension or truncation of x to w limbs.
Cast(x, w) == [i \in 1..w |-> IF i <= Len(x) THEN x[i] ELSE 0]

\* x is a limb value: every limb is a byte.
IsLimbs(x) == \A i \in 1..Len(x) : x[i] \in Byte

IsZero(x) == \A i \in 1..Len(x) : x[i] = 0

\* x >= y for limb values of the same length, decided from the top limb down.
RECURSIVE GeqFrom(_, _, _)
GeqFrom(x, y, i) ==
    IF i = 0 THEN TRUE
    ELSE IF x[i] > y[i] THEN TRUE
    ELSE IF x[i] < y[i] THEN FALSE
    ELSE GeqFrom(x, y, i - 1)

Geq(x, y) == GeqFrom(x, y, Len(x))

\* x + y on w limbs, wrapping (the carry out of the top limb is dropped).
RECURSIVE AddFrom(_, _, _, _, _)
AddFrom(x, y, i, carry, acc) ==
    IF i > Len(x) THEN acc
    ELSE LET s == x[i] + y[i] + carry
         IN AddFrom(x, y, i + 1, s \div 256, Append(acc, s % 256))

wrapping_add(x, y) ==
    CHOOSE r \in { AddFrom(a, b, 1, 0, <<>>) : a \in {x}, b \in {y} } : TRUE

\* x - y on w limbs for x >= y.
RECURSIVE SubFrom(_, _, _, _, _)
SubFrom(x, y, i, borrow, acc) ==
    IF i > Len(x) THEN acc
    ELSE LET d == x[i] - y[i] - borrow
         IN IF d < 0 THEN SubFrom(x, y, i + 1, 1, Append(acc, d + 256))
            ELSE SubFrom(x, y, i + 1, 0, Append(acc, d))

Sub(x, y) == SubFrom(x, y, 1, 0, <<>>)

\* Column k of the schoolbook product: the sum of x[i] * y[k+1-i].
RECURSIVE ColumnSum(_, _, _, _)
ColumnSum(x, y, k, i) ==
    IF i > k THEN 0
    ELSE x[i] * y[k + 1 - i] + ColumnSum(x, y, k, i + 1)

\* x * y on w limbs, wrapping (the columns above w are dropped).
RECURSIVE MulFrom(_, _, _, _, _)
MulFrom(x, y, k, carry, acc) ==
    IF k > Len(x) THEN acc
    ELSE LET s == ColumnSum(x, y, k, 1) + carry
         IN MulFrom(x, y, k + 1, s \div 256, Append(acc, s % 256))

wrapping_mul(x, y) ==
    CHOOSE r \in { MulFrom(a, b, 1, 0, <<>>) : a \in {x}, b \in {y} } : TRUE

\* The number of significant limbs of x (at least 1).
RECURSIVE SigLenFrom(_, _)
SigLenFrom(x, i) ==
    IF i <= 1 THEN 1
    ELSE IF x[i] # 0 THEN i
    ELSE SigLenFrom(x, i - 1)

SigLen(x) == SigLenFrom(x, Len(x))

\* t - q * m on the limbs of t, for a byte q with q * m <= t.
RECURSIVE MulSubFrom(_, _, _, _, _, _, _)
MulSubFrom(t, m, q, i, carry, borrow, acc) ==
    IF i > Len(t) THEN acc
    ELSE LET p == q * m[i] + carry
             d == t[i] - (p % 256) - borrow
         IN IF d < 0
            THEN MulSubFrom(t, m, q, i + 1, p \div 256, 1, Append(acc, d + 256))
            ELSE MulSubFrom(t, m, q, i + 1, p \div 256, 0, Append(acc, d))

MulSub(t, m, q) == MulSubFrom(t, m, q, 1, 0, 0, <<>>)

\* t - m as long as t >= m.
RECURSIVE SubWhileGeq(_, _)
SubWhileGeq(t, m) == IF Geq(t, m) THEN SubWhileGeq(Sub(t, m), m) ELSE t

\* One step of the long division: (r * 256 + byte) % m, for r < m.  r and m
\* are on n+1 limbs, n the significant limbs of m.  The quotient byte is
\* estimated from below from the top limbs and the remainder corrected.
RemStep(r, byte, m, n) ==
    LET t == [j \in 1..(n + 1) |-> IF j = 1 THEN byte ELSE r[j - 1]]
    IN IF n = 1
       THEN Limbs((t[2] * 256 + t[1]) % m[1], 2)
       ELSE LET top == t[n + 1] * 65536 + t[n] * 256 + t[n - 1]
                q == top \div (m[n] * 256 + m[n - 1] + 1)
            IN SubWhileGeq(MulSub(t, m, q), m)

\* x % m for limb values x and m, m > 0: long division in base 256, from the
\* top limb of x down.
RECURSIVE RemFrom(_, _, _, _, _)
RemFrom(x, m, n, i, r) ==
    IF i = 0 THEN r
    ELSE IF x[i] = 0 /\ IsZero(r) THEN RemFrom(x, m, n, i - 1, r)
    ELSE LET r2 == RemStep(r, x[i], m, n)
         IN IF IsLimbs(r2) THEN RemFrom(x, m, n, i - 1, r2) ELSE Null

Rem(x, m) ==
    LET n == SigLen(m)
    IN Cast(RemFrom(x, Cast(m, n + 1), n, Len(x), Cast(<<>>, n + 1)), Len(x))

\* x / 2 on w limbs.
Half(x) ==
    [i \in 1..Len(x) |->
        (x[i] \div 2) + (IF i < Len(x) THEN (x[i + 1] % 2) * 128 ELSE 0)]

U32(n) == Limbs(n, 4)
U64(n) == Limbs(n, 8)
U128(n) == Limbs(n, 16)

\* ------------------------------------------------------------------------
\* Constants of the program
\* ------------------------------------------------------------------------

\* const P: u64 = 0xD87FA3E291B4C7F3, least significant byte first.
P == <<243, 199, 180, 145, 226, 163, 127, 216>>

\* const G: u64 = 2
G == U64(2)

LCG_A == 1103515245
LCG_C == 12345

\* ------------------------------------------------------------------------
\* mod_pow
\* ------------------------------------------------------------------------

\* An iteration of mod_pow's loop with the square taken before the multiply.
mod_pow_step_square_first(s, m) ==
    LET b2 == Rem(wrapping_mul(s.b, s.b), m)
    IN [result |-> IF s.e[1] % 2 = 1 THEN Rem(wrapping_mul(s.result, b2), m)
                   ELSE s.result,
        b |-> b2,
        e |-> Half(s.e)]

\* An iteration of mod_pow's loop with the product result * b left unreduced.
mod_pow_step_unreduced(s, m) ==
    [result |-> IF s.e[1] % 2 = 1 THEN wrapping_mul(s.result, s.b)
                ELSE s.result,
     b |-> Rem(wrapping_mul(s.b, s.b), m),
     e |-> Half(s.e)]

\* One iteration of the while loop of mod_pow, on the locals result and b
\* (u128) and e (u64); m is u128.
mod_pow_step(s, m) ==
    [result |-> IF s.e[1] % 2 = 1 THEN Rem(wrapping_mul(s.result, s.b), m)
                ELSE s.result,
     b |-> Rem(wrapping_mul(s.b, s.b), m),
     e |-> Half(s.e)]

\* Up to n iterations of the loop, which ends when e is 0.
RECURSIVE mod_pow_steps(_, _, _)
mod_pow_steps(s, m, n) ==
    IF n = 0 \/ IsZero(s.e) THEN s
    ELSE LET t == mod_pow_step(s, m)
         IN IF IsLimbs(t.result) /\ IsLimbs(t.b)
            THEN mod_pow_steps(t, m, n - 1)
            ELSE [t EXCEPT !.e = U64(0)]

\* The while loop of mod_pow, eight iterations at a time.
RECURSIVE mod_pow_loop(_, _)
mod_pow_loop(s, m) ==
    IF IsZero(s.e) THEN s.result
    ELSE LET t == mod_pow_steps(s, m, 8)
         IN IF IsLimbs(t.e) THEN mod_pow_loop(t, m) ELSE Null

mod_pow(base, exp, modulus) ==
    Cast(mod_pow_loop([result |-> U128(1), b |-> Cast(base, 16), e |-> exp],
                      Cast(modulus, 16)), 8)

\* ------------------------------------------------------------------------
\* LcgCipher
\* ------------------------------------------------------------------------

\* a ^ b on bytes (bitwise exclusive or).
RECURSIVE XorBits(_, _, _)
XorBits(a, b, n) ==
    IF n = 0 THEN 0
    ELSE ((a + b) % 2) + 2 * XorBits(a \div 2, b \div 2, n - 1)

Xor(a, b) == XorBits(a, b, 8)

\* struct LcgCipher { state: u32, count: usize }; no cipher yet: NoCipher.
NoCipher == [state |-> Null, count |-> 0]

\* One step of the generator: state.wrapping_mul(LCG_A).wrapping_add(LCG_C).
LcgStep(state) == wrapping_add(wrapping_mul(state, U32(LCG_A)), U32(LCG_C))

\* (state >> 24) as u8: the most significant byte of a u32.
TopByte(state) == state[4]

\* for _ in 0..10: the bytes LcgCipher::new previews.
PreviewLen == 10

\* The for loop of LcgCipher::new on its local temp_state, n turns of it:
\* temp_state at the end and the bytes printed.
RECURSIVE preview_loop(_, _, _)
preview_loop(temp_state, printed, n) ==
    IF n = 0 THEN [temp_state |-> temp_state, printed |-> printed]
    ELSE CHOOSE r \in { preview_loop(t, Append(printed, TopByte(t)), n - 1) :
                            t \in {LcgStep(temp_state)} } : TRUE

\* What LcgCipher::new(seed) prints after "Keystream: ".
new_preview(seed) == preview_loop(Cast(seed, 4), <<>>, PreviewLen).printed

\* LcgCipher::new keeping the state its preview loop ended with.
LcgCipher_new_previewed(seed) ==
    [state |-> preview_loop(Cast(seed, 4), <<>>, PreviewLen).temp_state,
     count |-> 0]

\* LcgCipher::new taking the high 32 bits of the seed (seed >> 32) as u32.
LcgCipher_new_high(seed) == [state |-> SubSeq(seed, 5, 8), count |-> 0]

\* LcgCipher::new(seed): state = seed as u32, count = 0.
LcgCipher_new(seed) == [state |-> Cast(seed, 4), count |-> 0]

\* next_byte returning the least significant byte of the state.
next_byte_low(c) ==
    LET state == LcgStep(c.state)
    IN [cipher |-> [state |-> state, count |-> c.count + 1],
        byte |-> state[1]]

\* LcgCipher::next_byte(&mut self): the cipher after the call and the byte
\* returned.
next_byte(c) ==
    LET state == LcgStep(c.state)
    IN [cipher |-> [state |-> state, count |-> c.count + 1],
        byte |-> TopByte(state)]

\* process with the keystream byte added to the data byte instead of xored.
RECURSIVE process_add_from(_, _, _, _, _)
process_add_from(c, data, i, out, key_bytes) ==
    IF i > Len(data)
    THEN [cipher |-> c, out |-> out, key_bytes |-> key_bytes]
    ELSE LET nb == next_byte(c)
         IN process_add_from(nb.cipher, data, i + 1,
                             Append(out, (data[i] + nb.byte) % 256),
                             Append(key_bytes, nb.byte))

\* process restarting the keystream position on every call.
RECURSIVE process_reset_from(_, _, _, _, _)
process_reset_from(c, data, i, out, key_bytes) ==
    IF i > Len(data)
    THEN [cipher |-> c, out |-> out, key_bytes |-> key_bytes]
    ELSE LET nb == next_byte(IF i = 1 THEN [c EXCEPT !.count = 0] ELSE c)
         IN process_reset_from(nb.cipher, data, i + 1,
                               Append(out, Xor(data[i], nb.byte)),
                               Append(key_bytes, nb.byte))

\* The for loop of process: one next_byte per data byte, out = b ^ k.
RECURSIVE process_from(_, _, _, _, _)
process_from(c, data, i, out, key_bytes) ==
    IF i > Len(data)
    THEN [cipher |-> c, out |-> out, key_bytes |-> key_bytes]
    ELSE CHOOSE r \in { process_from(nb.cipher, data, i + 1,
                                     Append(out, Xor(data[i], nb.byte)),
                                     Append(key_bytes, nb.byte)) :
                        nb \in {next_byte(c)} } : TRUE

\* LcgCipher::process(&mut self, data, mode): the cipher after the call, the
\* bytes returned, and what the call prints: the keystream bytes used and the
\* keystream position it started from.
process(c, data) ==
    LET r == process_from(c, data, 1, <<>>, <<>>)
    IN [cipher |-> r.cipher, out |-> r.out, key_bytes |-> r.key_bytes,
        start_pos |-> c.count]

\* ------------------------------------------------------------------------
\* State
\* ------------------------------------------------------------------------

VARIABLES
    \* mod_pow called on its own: the arguments, the value returned, and
    \* whether the call panicked instead of returning
    mp_args, mp_result, mp_panic,
    \* the two derivations of the Diffie-Hellman secret
    dh,
    \* two LcgCipher instances made from one seed, and the calls made on each
    cseed, ciph, calls,
    \* two peers, each running handle_connection on one end of a connection:
    \* where the main thread and the receiver thread of each peer are
    pc, rpc,
    \* the value rand::thread_rng().gen() returns in each peer's process
    rng,
    \* the locals of handle_connection
    private_key, public_key, their_public_key, shared_secret,
    \* the 8-byte buffer of read_exact
    keybuf,
    \* the sender's cipher and the receiver thread's decryptor
    cipher, decryptor,
    \* per direction: the bytes written and not yet read, for each of them
    \* whether it ended a write_all, and the rest of a write_all in progress
    chan, marks, outbuf,
    \* history: the text each peer encrypted and the keystream it used, the
    \* text each receiver thread printed and the keystream it used, the number
    \* of messages sent, and how the receiver's reads cut the byte stream
    sent_plain, key_out, recv_plain, key_in, frames, reads,
    \* history: every byte each peer has written to the connection, and the
    \* number of empty lines its main loop has skipped
    wire, skipped,
    \* whether each peer's stdin has reached end of input
    stdin_eof,
    \* history: the places where an I/O call of a peer returned an error, and
    \* those of them the peer reported (by a panic or a printed message)
    io_errors, reported,
    \* find_path: the grid and the flag it is called with, its locals dist,
    \* heap and parents, and what it returned
    grid, maximize, dist, heap, parents, found

mp_vars == <<mp_args, mp_result, mp_panic>>
dh_vars == <<dh>>
cipher_vars == <<cseed, ciph, calls>>
key_vars == <<rng, private_key, public_key, their_public_key, shared_secret, keybuf>>
wire_vars == <<chan, marks, outbuf, wire>>
send_vars == <<cipher, sent_plain, key_out, frames, skipped>>
recv_vars == <<decryptor, recv_plain, key_in, reads>>
fault_vars == <<stdin_eof, io_errors, reported>>
net_vars == <<pc, rpc, key_vars, wire_vars, send_vars, recv_vars, fault_vars>>
path_vars == <<grid, maximize, dist, heap, parents, found>>
vars == <<mp_vars, dh_vars, cipher_vars, net_vars, path_vars>>

Peers == {"A", "B"}
Peer(p) == IF p = "A" THEN "B" ELSE "A"

ModPowIdle == mp_args = Null /\ mp_result = Null /\ mp_panic = FALSE
NoDh == [privA |-> Null, privB |-> Null, pubA |-> Null, pubB |-> Null,
         secretA |-> Null, secretB |-> Null]
DhIdle == dh = NoDh
PathIdle ==
    /\ grid = Null /\ maximize = FALSE /\ dist = <<>> /\ heap = {}
    /\ parents = <<>> /\ found = Null
CipherIdle == cseed = Null /\ ciph = <<>> /\ calls = <<>>
NetIdle ==
    /\ pc = [p \in Peers |-> "idle"] /\ rpc = [p \in Peers |-> "none"]
    /\ rng = [p \in Peers |-> Null]
    /\ private_key = [p \in Peers |-> Null]
    /\ public_key = [p \in Peers |-> Null]
    /\ their_public_key = [p \in Peers |-> Null]
    /\ shared_secret = [p \in Peers |-> Null]
    /\ keybuf = [p \in Peers |-> <<>>]
    /\ cipher = [p \in Peers |-> NoCipher]
    /\ decryptor = [p \in Peers |-> NoCipher]
    /\ chan = [p \in Peers |-> <<>>]
    /\ marks = [p \in Peers |-> <<>>]
    /\ outbuf = [p \in Peers |-> <<>>]
    /\ sent_plain = [p \in Peers |-> <<>>]
    /\ key_out = [p \in Peers |-> <<>>]
    /\ recv_plain = [p \in Peers |-> <<>>]
    /\ key_in = [p \in Peers |-> <<>>]
    /\ frames = [p \in Peers |-> 0]
    /\ reads = [p \in Peers |-> {}]
    /\ wire = [p \in Peers |-> <<>>]
    /\ skipped = [p \in Peers |-> 0]
    /\ stdin_eof = [p \in Peers |-> FALSE]
    /\ io_errors = [p \in Peers |-> {}]
    /\ reported = [p \in Peers |-> {}]

\* ------------------------------------------------------------------------
\* mod_pow on bounded inputs
\* ------------------------------------------------------------------------

\* 0xFFFFFFFFFFFFFFFF and P + 2: bases that need the 128-bit product.
WideBases == { [i \in 1..8 |-> 255], <<245, 199, 180, 145, 226, 163, 127, 216>> }
WideMods == { P }

Bases == { U64(n) : n \in 0..MaxBase } \cup WideBases
Exps == { U64(n) : n \in 0..MaxExp }
Mods == { U64(n) : n \in 2..MaxMod } \cup WideMods

\* Every modulus of the u64 range, 0 and 1 included.
AnyMods == { U64(0), U64(1) } \cup Mods

ModPowInit ==
    /\ mp_args \in [base : Bases, exp : Exps, modulus : Mods]
    /\ mp_result = Null /\ mp_panic = FALSE
    /\ DhIdle /\ CipherIdle /\ NetIdle /\ PathIdle

ModPowAnyInit ==
    /\ mp_args \in [base : Bases, exp : Exps, modulus : AnyMods]
    /\ mp_result = Null /\ mp_panic = FALSE
    /\ DhIdle /\ CipherIdle /\ NetIdle /\ PathIdle

\* The % m of the loop's first iteration panics when m is 0 ("attempt to
\* calculate the remainder with a divisor of zero"); the loop is entered
\* when e > 0.
rem_by_zero(exp, modulus) == ~IsZero(exp) /\ IsZero(modulus)

\* A call of mod_pow: it returns a value, or panics.
ModPowCall ==
    /\ mp_result = Null /\ ~mp_panic
    /\ IF rem_by_zero(mp_args.exp, mp_args.modulus)
       THEN mp_panic' = TRUE /\ mp_result' = Null
       ELSE /\ mp_panic' = FALSE
            /\ mp_result' = mod_pow(mp_args.base, mp_args.exp, mp_args.modulus)
    /\ UNCHANGED <<mp_args, dh_vars, cipher_vars, net_vars,
                   path_vars>>

ModPowNext == ModPowCall

SpecModPow == ModPowInit /\ [][ModPowNext]_vars

\* mod_pow called with any modulus.
SpecModPowAny == ModPowAnyInit /\ [][ModPowNext]_vars

\* ------------------------------------------------------------------------
\* The Diffie-Hellman computation of handle_connection, without the network
\* ------------------------------------------------------------------------

\* 0x8000000000000001: a private key of full width.
WideKeys == { <<1, 0, 0, 0, 0, 0, 0, 128>> }

DhKeys == { U64(n) : n \in 0..MaxKey } \cup WideKeys

DhInit ==
    /\ \E a \in DhKeys, b \in DhKeys :
          dh = [NoDh EXCEPT !.privA = a, !.privB = b]
    /\ ModPowIdle /\ CipherIdle /\ NetIdle /\ PathIdle

\* let public_key = mod_pow(G, private_key, P), on both peers
DhPublic ==
    /\ dh.pubA = Null
    /\ dh' = [dh EXCEPT !.pubA = mod_pow(G, dh.privA, P),
                        !.pubB = mod_pow(G, dh.privB, P)]
    /\ UNCHANGED <<mp_vars, cipher_vars, net_vars,
                   path_vars>>

\* let shared_secret = mod_pow(their_public_key, private_key, P), on peer A
DhSecretA ==
    /\ dh.pubA # Null /\ dh.secretA = Null
    /\ dh' = [dh EXCEPT !.secretA = mod_pow(dh.pubB, dh.privA, P)]
    /\ UNCHANGED <<mp_vars, cipher_vars, net_vars,
                   path_vars>>

\* the same on peer B
DhSecretB ==
    /\ dh.secretA # Null /\ dh.secretB = Null
    /\ dh' = [dh EXCEPT !.secretB = mod_pow(dh.pubA, dh.privB, P)]
    /\ UNCHANGED <<mp_vars, cipher_vars, net_vars,
                   path_vars>>

DhNext == DhPublic \/ DhSecretA \/ DhSecretB

SpecDh == DhInit /\ [][DhNext]_vars

\* ------------------------------------------------------------------------
\* Two LcgCipher instances constructed from the same seed
\* ------------------------------------------------------------------------

\* 1, and 0xD87FA3E21234ABCD, whose low 32 bits are 0x1234ABCD.
Seeds == { U64(1), <<205, 171, 52, 18, 226, 163, 127, 216>> }

\* "", "H", "i", "Hi"
Messages == { <<>>, <<72>>, <<105>>, <<72, 105>> }

Instances == 1..2
Other(i) == 3 - i

CallsMade == Len(calls[1]) + Len(calls[2])

CipherInit ==
    /\ cseed \in Seeds
    /\ ciph = [i \in Instances |-> LcgCipher_new(cseed)]
    /\ calls = [i \in Instances |-> <<>>]
    /\ ModPowIdle /\ DhIdle /\ NetIdle /\ PathIdle

\* One call of next_byte on an instance whose state is kept in a static shared
\* by every instance.
CipherNextByteShared(i) ==
    /\ CallsMade < MaxCalls
    /\ LET nb == next_byte(ciph[i])
       IN /\ ciph' = [j \in Instances |-> nb.cipher]
          /\ calls' = [calls EXCEPT ![i] = Append(@,
                [op |-> "next_byte", data |-> <<>>, out |-> <<nb.byte>>,
                 key_bytes |-> <<nb.byte>>, before |-> ciph[i],
                 after |-> nb.cipher])]
    /\ UNCHANGED <<cseed, mp_vars, dh_vars, net_vars,
                   path_vars>>

\* cipher.next_byte() on instance i.
CipherNextByte(i) ==
    /\ CallsMade < MaxCalls
    /\ LET nb == next_byte(ciph[i])
       IN /\ ciph' = [ciph EXCEPT ![i] = nb.cipher]
          /\ calls' = [calls EXCEPT ![i] = Append(@,
                [op |-> "next_byte", data |-> <<>>, out |-> <<nb.byte>>,
                 key_bytes |-> <<nb.byte>>, before |-> ciph[i],
                 after |-> nb.cipher])]
    /\ UNCHANGED <<cseed, mp_vars, dh_vars, net_vars,
                   path_vars>>

\* cipher.process(data, mode) on instance i.
CipherProcess(i, data) ==
    /\ CallsMade < MaxCalls
    /\ LET r == process(ciph[i], data)
       IN /\ ciph' = [ciph EXCEPT ![i] = r.cipher]
          /\ calls' = [calls EXCEPT ![i] = Append(@,
                [op |-> "process", data |-> data, out |-> r.out,
                 key_bytes |-> r.key_bytes, before |-> ciph[i],
                 after |-> r.cipher])]
    /\ UNCHANGED <<cseed, mp_vars, dh_vars, net_vars,
                   path_vars>>

\* Instance i processes what the other instance's last call returned.
CipherProcessPeer(i) ==
    /\ calls[Other(i)] # <<>>
    /\ CipherProcess(i, calls[Other(i)][Len(calls[Other(i)])].out)

CipherNext ==
    \E i \in Instances :
        \/ CipherNextByte(i)
        \/ \E data \in Messages : CipherProcess(i, data)
        \/ CipherProcessPeer(i)

SpecCipher == CipherInit /\ [][CipherNext]_vars

\* One instance made by LcgCipher::new and then asked for its first bytes,
\* for the seeds of Seeds and of the Diffie-Hellman harness.
PreviewSeeds == Seeds \cup DhKeys

PreviewInit ==
    /\ cseed \in PreviewSeeds
    /\ ciph = [i \in Instances |-> LcgCipher_new(cseed)]
    /\ calls = [i \in Instances |-> <<>>]
    /\ ModPowIdle /\ DhIdle /\ NetIdle /\ PathIdle

\* cipher.next_byte() on the first instance, for as many bytes as new
\* previews.
PreviewNextByte ==
    /\ Len(calls[1]) < PreviewLen
    /\ LET nb == next_byte(ciph[1])
       IN /\ ciph' = [ciph EXCEPT ![1] = nb.cipher]
          /\ calls' = [calls EXCEPT ![1] = Append(@,
                [op |-> "next_byte", data |-> <<>>, out |-> <<nb.byte>>,
                 key_bytes |-> <<nb.byte>>, before |-> ciph[1],
                 after |-> nb.cipher])]
    /\ UNCHANGED <<cseed, mp_vars, dh_vars, net_vars, path_vars>>

SpecPreview == PreviewInit /\ [][PreviewNextByte]_vars

\* ------------------------------------------------------------------------
\* Two peers running handle_connection on the two ends of one connection
\* ------------------------------------------------------------------------

\* The private keys rand may return: 5, 7 and 0x8000000000000001.
PrivKeys == { U64(5), U64(7) } \cup WideKeys

\* The lines stdin may deliver: "Hi\n", " !\n" and "\n".
StdinLines == { <<72, 105, 10>>, <<32, 33, 10>>, <<10>> }

\* let mut buffer = [0u8; 8] and let mut buffer = [0u8; 1024]
KeyBufLen == 8
RecvBufLen == 1024

Min(a, b) == IF a <= b THEN a ELSE b

Reverse(s) == [k \in 1..Len(s) |-> s[Len(s) + 1 - k]]

\* A to_be_bytes that writes the least significant byte first.
to_le_bytes(x) == x

\* u64::to_be_bytes: the most significant byte first.
to_be_bytes(x) == Reverse(x)

\* A from_be_bytes that takes the first byte as the least significant.
from_le_bytes(bytes) == bytes

\* u64::from_be_bytes
from_be_bytes(bytes) == Reverse(bytes)

\* The whitespace str::trim removes, in ASCII text.
IsSpace(b) == b \in {9, 10, 11, 12, 13, 32}

RECURSIVE trim_start(_)
trim_start(s) ==
    IF s # <<>> /\ IsSpace(Head(s)) THEN trim_start(Tail(s)) ELSE s

\* A main loop that tests and sends the line as read_line returned it.
no_trim(s) == s

\* A trim that removes the line terminator and nothing else.
trim_newline(s) ==
    IF s # <<>> /\ s[Len(s)] = 10 THEN SubSeq(s, 1, Len(s) - 1) ELSE s

\* str::trim: whitespace removed from both ends.
trim(s) == Reverse(trim_start(Reverse(trim_start(s))))

\* mod_pow(base, exp, P) for the arguments the key pairs of PrivKeys give
\* it, computed once.
PublicKeys == [k \in PrivKeys |-> mod_pow(G, k, P)]

SharedSecrets ==
    [j \in PrivKeys |-> [k \in PrivKeys |-> mod_pow(PublicKeys[j], k, P)]]

mod_pow_P(base, exp) ==
    IF exp \in PrivKeys /\ base = G THEN PublicKeys[exp]
    ELSE IF exp \in PrivKeys /\ \E j \in PrivKeys : PublicKeys[j] = base
         THEN SharedSecrets[CHOOSE j \in PrivKeys : PublicKeys[j] = base][exp]
         ELSE mod_pow(base, exp, P)

\* Both peers connected, handle_connection about to start.
Connected ==
    /\ pc = [p \in Peers |-> "connected"]
    /\ rpc = [p \in Peers |-> "none"]
    /\ private_key = [p \in Peers |-> Null]
    /\ public_key = [p \in Peers |-> Null]
    /\ their_public_key = [p \in Peers |-> Null]
    /\ shared_secret = [p \in Peers |-> Null]
    /\ keybuf = [p \in Peers |-> <<>>]
    /\ cipher = [p \in Peers |-> NoCipher]
    /\ decryptor = [p \in Peers |-> NoCipher]
    /\ chan = [p \in Peers |-> <<>>]
    /\ marks = [p \in Peers |-> <<>>]
    /\ outbuf = [p \in Peers |-> <<>>]
    /\ sent_plain = [p \in Peers |-> <<>>]
    /\ key_out = [p \in Peers |-> <<>>]
    /\ recv_plain = [p \in Peers |-> <<>>]
    /\ key_in = [p \in Peers |-> <<>>]
    /\ frames = [p \in Peers |-> 0]
    /\ reads = [p \in Peers |-> {}]
    /\ wire = [p \in Peers |-> <<>>]
    /\ skipped = [p \in Peers |-> 0]
    /\ stdin_eof = [p \in Peers |-> FALSE]
    /\ io_errors = [p \in Peers |-> {}]
    /\ reported = [p \in Peers |-> {}]
    /\ ModPowIdle /\ DhIdle /\ CipherIdle /\ PathIdle

NetInit == rng \in [Peers -> PrivKeys] /\ Connected

\* A write_all into a buffered writer that is never flushed: the call returns
\* and no byte reaches the connection.
WriteAllUnflushed(p, bytes, done, blocked) ==
    /\ outbuf' = [outbuf EXCEPT ![p] = bytes]
    /\ pc' = [pc EXCEPT ![p] = done]
    /\ UNCHANGED <<chan, marks, wire>>

\* stream.write_all(bytes): as many bytes as the connection has room for are
\* written; the call returns when all are, and blocks (at position blocked)
\* until then.
WriteAll(p, bytes, done, blocked) ==
    LET n == Min(ChanCap - Len(chan[p]), Len(bytes))
    IN /\ chan' = [chan EXCEPT ![p] = @ \o SubSeq(bytes, 1, n)]
       /\ marks' = [marks EXCEPT ![p] = @ \o [k \in 1..n |-> k = Len(bytes)]]
       /\ outbuf' = [outbuf EXCEPT ![p] = SubSeq(bytes, n + 1, Len(bytes))]
       /\ wire' = [wire EXCEPT ![p] = @ \o SubSeq(bytes, 1, n)]
       /\ pc' = [pc EXCEPT ![p] = IF n = Len(bytes) THEN done ELSE blocked]

\* From the start of handle_connection to the write_all of the public key.
SendPublicKey(p) ==
    /\ pc[p] = "connected"
    /\ LET k == rng[p]
           pub == mod_pow_P(G, k)
       IN /\ private_key' = [private_key EXCEPT ![p] = k]
          /\ public_key' = [public_key EXCEPT ![p] = pub]
          /\ WriteAll(p, to_be_bytes(pub), "read_key", "write_key")
    /\ UNCHANGED <<rpc, rng, their_public_key, shared_secret, keybuf,
                   send_vars, recv_vars, fault_vars, mp_vars, dh_vars,
                   cipher_vars,
                   path_vars>>

\* A write_all that could not write everything goes on when there is room.
WriteMore(p) ==
    /\ pc[p] \in {"write_key", "write_msg"}
    /\ Len(chan[p]) < ChanCap
    /\ WriteAll(p, outbuf[p],
                IF pc[p] = "write_key" THEN "read_key" ELSE "read_line", pc[p])
    /\ UNCHANGED <<rpc, key_vars, send_vars, recv_vars, fault_vars, mp_vars, dh_vars,
                   cipher_vars,
                   path_vars>>

\* stream.read_exact(&mut buffer) and, once the buffer is full, everything up
\* to the first read_line: the shared secret, the cipher, the receiver thread
\* and its decryptor.
ReadPublicKey(p) ==
    /\ pc[p] = "read_key"
    /\ chan[Peer(p)] # <<>>
    /\ LET q == Peer(p)
           n == Min(Len(chan[q]), KeyBufLen - Len(keybuf[p]))
           buffer == keybuf[p] \o SubSeq(chan[q], 1, n)
           their == from_be_bytes(buffer)
           secret == mod_pow_P(their, private_key[p])
       IN /\ chan' = [chan EXCEPT ![q] = SubSeq(@, n + 1, Len(@))]
          /\ marks' = [marks EXCEPT ![q] = SubSeq(@, n + 1, Len(@))]
          /\ keybuf' = [keybuf EXCEPT ![p] = buffer]
          /\ IF Len(buffer) = KeyBufLen
             THEN /\ their_public_key' = [their_public_key EXCEPT ![p] = their]
                  /\ shared_secret' = [shared_secret EXCEPT ![p] = secret]
                  /\ cipher' = [cipher EXCEPT ![p] = LcgCipher_new(secret)]
                  /\ decryptor' = [decryptor EXCEPT ![p] = LcgCipher_new(secret)]
                  /\ pc' = [pc EXCEPT ![p] = "read_line"]
                  /\ rpc' = [rpc EXCEPT ![p] = "read"]
             ELSE UNCHANGED <<their_public_key, shared_secret, cipher,
                              decryptor, pc, rpc>>
    /\ UNCHANGED <<rng, private_key, public_key, outbuf, wire, sent_plain, key_out,
                   frames, skipped, recv_plain, key_in, reads, fault_vars, mp_vars, dh_vars,
                   cipher_vars,
                   path_vars>>

\* One turn of the main loop: read_line, trim, and for a line that is not
\* empty process(bytes, "ENCRYPT") and write_all of what it returned.
SendLine(p, input) ==
    /\ pc[p] = "read_line"
    /\ ~stdin_eof[p]
    /\ LET trimmed == trim(input)
           r == process(cipher[p], trimmed)
       IN IF trimmed = <<>>
          THEN /\ skipped["A"] + skipped["B"] < MaxSkips
               /\ skipped' = [skipped EXCEPT ![p] = @ + 1]
               /\ UNCHANGED <<pc, wire_vars, cipher, sent_plain, key_out,
                              frames>>
          ELSE /\ frames["A"] + frames["B"] < MaxSends
               /\ cipher' = [cipher EXCEPT ![p] = r.cipher]
               /\ sent_plain' = [sent_plain EXCEPT ![p] = @ \o trimmed]
               /\ key_out' = [key_out EXCEPT ![p] = @ \o r.key_bytes]
               /\ frames' = [frames EXCEPT ![p] = @ + 1]
               /\ skipped' = skipped
               /\ WriteAll(p, r.out, "read_line", "write_msg")
    /\ UNCHANGED <<rpc, key_vars, recv_vars, fault_vars, mp_vars, dh_vars,
                   cipher_vars,
                   path_vars>>

\* How a read of n bytes cut the stream: it stopped inside a write_all
\* ("split"), or it took bytes of more than one ("coalesced").
ReadKinds(ms, n) ==
    (IF ms[n] THEN {} ELSE {"split"})
        \cup (IF \E k \in 1..(n - 1) : ms[k] THEN {"coalesced"} ELSE {})

\* The receiver thread with let mut decryptor = LcgCipher::new(..) inside its
\* loop: every read is decrypted from keystream position 0.
ReceiveFresh(p, n) ==
    /\ rpc[p] = "read"
    /\ n \in 1..Min(Len(chan[Peer(p)]), RecvBufLen)
    /\ LET q == Peer(p)
           r == process(LcgCipher_new(shared_secret[p]), SubSeq(chan[q], 1, n))
       IN /\ decryptor' = [decryptor EXCEPT ![p] = r.cipher]
          /\ recv_plain' = [recv_plain EXCEPT ![p] = @ \o r.out]
          /\ key_in' = [key_in EXCEPT ![p] = @ \o r.key_bytes]
          /\ reads' = [reads EXCEPT ![p] = @ \cup ReadKinds(marks[q], n)]
          /\ chan' = [chan EXCEPT ![q] = SubSeq(@, n + 1, Len(@))]
          /\ marks' = [marks EXCEPT ![q] = SubSeq(@, n + 1, Len(@))]
    /\ UNCHANGED <<pc, rpc, key_vars, outbuf, wire, send_vars, fault_vars, mp_vars, dh_vars,
                   cipher_vars,
                   path_vars>>

\* The receiver thread decrypting with the cipher the main loop encrypts with.
ReceiveShared(p, n) ==
    /\ rpc[p] = "read"
    /\ n \in 1..Min(Len(chan[Peer(p)]), RecvBufLen)
    /\ LET q == Peer(p)
           r == process(cipher[p], SubSeq(chan[q], 1, n))
       IN /\ cipher' = [cipher EXCEPT ![p] = r.cipher]
          /\ decryptor' = [decryptor EXCEPT ![p] = r.cipher]
          /\ recv_plain' = [recv_plain EXCEPT ![p] = @ \o r.out]
          /\ key_in' = [key_in EXCEPT ![p] = @ \o r.key_bytes]
          /\ reads' = [reads EXCEPT ![p] = @ \cup ReadKinds(marks[q], n)]
          /\ chan' = [chan EXCEPT ![q] = SubSeq(@, n + 1, Len(@))]
          /\ marks' = [marks EXCEPT ![q] = SubSeq(@, n + 1, Len(@))]
    /\ UNCHANGED <<pc, rpc, key_vars, outbuf, wire, sent_plain, key_out, frames,
                   skipped,
                   fault_vars, mp_vars, dh_vars, cipher_vars,
                   path_vars>>

\* One turn of the receiver thread's loop: stream_reader.read(&mut buffer)
\* returns n > 0 bytes, and decryptor.process(&buffer[0..n], "DECRYPT").
Receive(p, n) ==
    /\ rpc[p] = "read"
    /\ n \in 1..Min(Len(chan[Peer(p)]), RecvBufLen)
    /\ LET q == Peer(p)
           r == process(decryptor[p], SubSeq(chan[q], 1, n))
       IN /\ decryptor' = [decryptor EXCEPT ![p] = r.cipher]
          /\ recv_plain' = [recv_plain EXCEPT ![p] = @ \o r.out]
          /\ key_in' = [key_in EXCEPT ![p] = @ \o r.key_bytes]
          /\ reads' = [reads EXCEPT ![p] = @ \cup ReadKinds(marks[q], n)]
          /\ chan' = [chan EXCEPT ![q] = SubSeq(@, n + 1, Len(@))]
          /\ marks' = [marks EXCEPT ![q] = SubSeq(@, n + 1, Len(@))]
    /\ UNCHANGED <<pc, rpc, key_vars, outbuf, wire, send_vars, fault_vars, mp_vars, dh_vars,
                   cipher_vars,
                   path_vars>>

Init == NetInit

Next ==
    \E p \in Peers :
        \/ SendPublicKey(p)
        \/ ReadPublicKey(p)
        \/ WriteMore(p)
        \/ \E input \in StdinLines : SendLine(p, input)
        \/ \E n \in 1..ChanCap : Receive(p, n)

Spec == Init /\ [][Next]_vars

\* Each peer's process keeps running while it has a step to take.
FairSpec ==
    Spec /\ \A p \in Peers :
                /\ WF_vars(SendPublicKey(p))
                /\ WF_vars(ReadPublicKey(p))
                /\ WF_vars(WriteMore(p))

\* ------------------------------------------------------------------------
\* The same two peers with I/O errors, closed connections and end of input
\* ------------------------------------------------------------------------

\* The process of peer p has ended (by a panic, or by returning from
\* handle_connection and main), which closes its end of the connection.
Gone(p) == pc[p] \in {"panicked", "closed"}

\* The I/O errors and ends of input so far, and whether one more may come.
FaultCount ==
    Cardinality(io_errors["A"]) + Cardinality(io_errors["B"])
        + (IF stdin_eof["A"] THEN 1 ELSE 0) + (IF stdin_eof["B"] THEN 1 ELSE 0)

MayFail == FaultCount < MaxFaults

\* The bytes a write_all may have written before it returns an error.
PartialWrites == {0, 4}

\* The receiver thread of a process that ends is ended with it.
EndThreads(p) == rpc' = [rpc EXCEPT ![p] = IF @ = "read" THEN "killed" ELSE @]

\* The handshake going on after an I/O error, the Result dropped.
OnHandshakeErrorIgnored(p, place) ==
    /\ pc' = [pc EXCEPT ![p] = IF place = "handshake_send" THEN "read_key"
                                ELSE "read_line"]
    /\ rpc' = rpc
    /\ io_errors' = [io_errors EXCEPT ![p] = @ \cup {place}]
    /\ reported' = reported

\* .unwrap() on the Err of the handshake's write_all or read_exact: the
\* main thread panics with the error as message and the process ends.
OnHandshakeError(p, place) ==
    /\ pc' = [pc EXCEPT ![p] = "panicked"]
    /\ rpc' = rpc
    /\ io_errors' = [io_errors EXCEPT ![p] = @ \cup {place}]
    /\ reported' = [reported EXCEPT ![p] = @ \cup {place}]

\* The Err arm of the main loop without its break.
OnSendErrorContinue(p) ==
    /\ pc' = [pc EXCEPT ![p] = "read_line"]
    /\ rpc' = rpc
    /\ io_errors' = [io_errors EXCEPT ![p] = @ \cup {"chat_send"}]
    /\ reported' = [reported EXCEPT ![p] = @ \cup {"chat_send"}]

\* The Err arm of the main loop starting the handshake again.
OnSendErrorRetry(p) ==
    /\ pc' = [pc EXCEPT ![p] = "connected"]
    /\ rpc' = rpc
    /\ io_errors' = [io_errors EXCEPT ![p] = @ \cup {"chat_send"}]
    /\ reported' = [reported EXCEPT ![p] = @ \cup {"chat_send"}]

\* Err(e) => { println!("Send error: {}", e); break; } and the return of
\* handle_connection and main, which ends the process.
OnSendError(p) ==
    /\ pc' = [pc EXCEPT ![p] = "closed"]
    /\ EndThreads(p)
    /\ io_errors' = [io_errors EXCEPT ![p] = @ \cup {"chat_send"}]
    /\ reported' = [reported EXCEPT ![p] = @ \cup {"chat_send"}]

\* write_all(&public_key.to_be_bytes()) returns Err after n bytes: unwrap
\* panics, which ends the process with a message.
SendPublicKeyFail(p, n) ==
    /\ pc[p] = "connected"
    /\ MayFail
    /\ n < KeyBufLen /\ n <= ChanCap - Len(chan[p])
    /\ LET k == rng[p]
           pub == mod_pow_P(G, k)
       IN /\ private_key' = [private_key EXCEPT ![p] = k]
          /\ public_key' = [public_key EXCEPT ![p] = pub]
          /\ chan' = [chan EXCEPT ![p] = @ \o SubSeq(to_be_bytes(pub), 1, n)]
          /\ wire' = [wire EXCEPT ![p] = @ \o SubSeq(to_be_bytes(pub), 1, n)]
          /\ marks' = [marks EXCEPT ![p] = @ \o [i \in 1..n |-> FALSE]]
    /\ OnHandshakeError(p, "handshake_send")
    /\ UNCHANGED <<rng, their_public_key, shared_secret, keybuf, outbuf,
                   send_vars, recv_vars, stdin_eof, mp_vars, dh_vars,
                   cipher_vars,
                   path_vars>>

\* read_exact(&mut buffer) returns Err, because the peer closed before 8
\* bytes had come ("eof") or because the read failed ("error"): unwrap
\* panics.
ReadPublicKeyFail(p, cause) ==
    /\ pc[p] = "read_key"
    /\ LET q == Peer(p)
           short == Len(chan[q]) < KeyBufLen - Len(keybuf[p])
       IN /\ cause = "eof" => Gone(q) /\ short
          /\ cause = "error" => MayFail
          /\ IF cause = "eof"
             THEN /\ keybuf' = [keybuf EXCEPT ![p] = @ \o chan[q]]
                  /\ chan' = [chan EXCEPT ![q] = <<>>]
                  /\ marks' = [marks EXCEPT ![q] = <<>>]
             ELSE UNCHANGED <<keybuf, chan, marks>>
    /\ OnHandshakeError(p, "handshake_recv")
    /\ UNCHANGED <<rng, private_key, public_key, their_public_key,
                   shared_secret, outbuf, wire, send_vars, recv_vars,
                   stdin_eof, mp_vars, dh_vars, cipher_vars,
                   path_vars>>

\* A turn of the main loop whose write_all returns Err: the line has been
\* encrypted, "Send error" is printed and the loop is left; handle_connection
\* and main return.
SendLineFail(p, input) ==
    /\ pc[p] = "read_line"
    /\ MayFail
    /\ ~stdin_eof[p]
    /\ trim(input) # <<>>
    /\ frames["A"] + frames["B"] < MaxSends
    /\ LET r == process(cipher[p], trim(input))
       IN /\ cipher' = [cipher EXCEPT ![p] = r.cipher]
          /\ sent_plain' = [sent_plain EXCEPT ![p] = @ \o trim(input)]
          /\ key_out' = [key_out EXCEPT ![p] = @ \o r.key_bytes]
          /\ frames' = [frames EXCEPT ![p] = @ + 1]
    /\ OnSendError(p)
    /\ UNCHANGED <<key_vars, wire_vars, skipped, recv_vars, stdin_eof,
                   mp_vars, dh_vars, cipher_vars,
                   path_vars>>

\* A blocked write_all returns Err: for the key unwrap panics, for a message
\* "Send error" is printed and the loop is left.
WriteMoreFail(p) ==
    /\ pc[p] \in {"write_key", "write_msg"}
    /\ MayFail
    /\ IF pc[p] = "write_key" THEN OnHandshakeError(p, "handshake_send")
       ELSE OnSendError(p)
    /\ UNCHANGED <<key_vars, wire_vars, send_vars, recv_vars, stdin_eof,
                   mp_vars, dh_vars, cipher_vars,
                   path_vars>>

\* stream_reader.read returns Ok(0), the peer having closed: "Client
\* disconnected." is printed and the receiver thread leaves its loop.
ReceiveEof(p) ==
    /\ rpc[p] = "read"
    /\ chan[Peer(p)] = <<>> /\ Gone(Peer(p))
    /\ rpc' = [rpc EXCEPT ![p] = "stopped"]
    /\ UNCHANGED <<pc, key_vars, wire_vars, send_vars, recv_vars, fault_vars,
                   mp_vars, dh_vars, cipher_vars,
                   path_vars>>

\* stream_reader.read returns Err: the receiver thread leaves its loop,
\* printing nothing.
ReceiveFail(p) ==
    /\ rpc[p] = "read"
    /\ MayFail
    /\ rpc' = [rpc EXCEPT ![p] = "stopped"]
    /\ io_errors' = [io_errors EXCEPT ![p] = @ \cup {"chat_recv"}]
    /\ UNCHANGED <<pc, key_vars, wire_vars, send_vars, recv_vars, stdin_eof,
                   reported, mp_vars, dh_vars, cipher_vars,
                   path_vars>>

\* read_line returns Ok(0) at the end of stdin, input stays empty, and the
\* loop continues; every later read_line returns Ok(0) as well.
StdinEof(p) ==
    /\ pc[p] = "read_line"
    /\ MayFail
    /\ ~stdin_eof[p]
    /\ stdin_eof' = [stdin_eof EXCEPT ![p] = TRUE]
    /\ UNCHANGED <<pc, rpc, key_vars, wire_vars, send_vars, recv_vars,
                   io_errors, reported, mp_vars, dh_vars, cipher_vars,
                   path_vars>>

Faults ==
    \E p \in Peers :
        \/ \E n \in PartialWrites : SendPublicKeyFail(p, n)
        \/ \E cause \in {"eof", "error"} : ReadPublicKeyFail(p, cause)
        \/ \E input \in StdinLines : SendLineFail(p, input)
        \/ WriteMoreFail(p)
        \/ ReceiveEof(p)
        \/ ReceiveFail(p)
        \/ StdinEof(p)

\* The peers draw the keys 0x8000000000000001 and 7.
FaultInit ==
    /\ rng = [p \in Peers |-> IF p = "A" THEN <<1, 0, 0, 0, 0, 0, 0, 128>>
                                ELSE U64(7)]
    /\ Connected

SpecFaults == FaultInit /\ [][Next \/ Faults]_vars

\* The steps the main thread and the receiver thread of peer p take by
\* themselves, no line being typed and no error happening.
MainStep(p) == SendPublicKey(p) \/ ReadPublicKey(p) \/ WriteMore(p)

ReceiverStep(p) == (\E n \in 1..ChanCap : Receive(p, n)) \/ ReceiveEof(p)

\* Each thread keeps running while it has a step to take; no error and no
\* input line is bound to come.
FairSpecFaults ==
    SpecFaults /\ \A p \in Peers :
                     WF_vars(MainStep(p)) /\ WF_vars(ReceiverStep(p))

\* ------------------------------------------------------------------------
\* find_path of hexpath, on every grid of up to MaxCells cells
\* ------------------------------------------------------------------------

\* The cell values of the grids: 0x00, 0x01 and 0xFF.
CellVals == {0, 1, 255}

\* struct Grid { width, height, cells }, cells indexed from 0.
GridsOf(w, h) ==
    [width : {w}, height : {h}, cells : [0..(w * h - 1) -> CellVals]]

Grids ==
    UNION { UNION { GridsOf(w, h) : h \in 1..(MaxCells \div w) } :
                w \in 1..MaxCells }

\* Grid::get_index
get_index(g, x, y) == y * g.width + x

\* Grid::get_xy
get_xy(g, index) == <<index % g.width, index \div g.width>>

\* Grid::get_val
get_val(g, x, y) == g.cells[get_index(g, x, y)]

\* let end_idx = grid.cells.len() - 1
end_idx(g) == Cardinality(DOMAIN g.cells) - 1

\* let directions = [(0, 1), (1, 0), (0, -1), (-1, 0)]
directions == << <<0, 1>>, <<1, 0>>, <<0, -1>>, <<-1, 0>> >>

\* let move_cost = if maximize { 255 - cell_val } else { cell_val }
move_cost(max, cell_val) == IF max THEN 255 - cell_val ELSE cell_val

\* next_cost < dist[next_idx], dist holding u32::MAX for every index that is
\* not in its domain here; no cost of a bounded grid comes near u32::MAX.
improves(d, next_idx, next_cost) ==
    next_idx \notin DOMAIN d \/ next_cost < d[next_idx]

\* The for loop over directions, from the k-th direction on: s holds dist,
\* heap and parents, st is the State popped.
RECURSIVE relax(_, _, _, _, _)
relax(g, max, st, k, s) ==
    IF k > Len(directions) THEN s
    ELSE LET new_x == st.x + directions[k][1]
             new_y == st.y + directions[k][2]
         IN IF new_x >= 0 /\ new_x < g.width /\ new_y >= 0 /\ new_y < g.height
            THEN LET next_idx == get_index(g, new_x, new_y)
                     cell_val == get_val(g, new_x, new_y)
                     next_cost == st.cost + move_cost(max, cell_val)
                 IN IF improves(s.dist, next_idx, next_cost)
                    THEN relax(g, max, st, k + 1,
                               [dist |-> (next_idx :> next_cost) @@ s.dist,
                                parents |-> (next_idx :> get_index(g, st.x, st.y))
                                                @@ s.parents,
                                heap |-> s.heap \cup
                                    {[cost |-> next_cost, x |-> new_x, y |-> new_y]}])
                    ELSE relax(g, max, st, k + 1, s)
            ELSE relax(g, max, st, k + 1, s)

\* The path from the start to curr along parents (the while let loop and
\* path.reverse()).
RECURSIVE reconstruct(_, _)
reconstruct(par, curr) ==
    IF curr \in DOMAIN par THEN Append(reconstruct(par, par[curr]), curr)
    ELSE <<curr>>

\* A heap that returns its entries in any order.
pop_any(h) == h

\* The States heap.pop() may return: by impl Ord for State the greatest is
\* one of the least cost; which of several of the same cost is not fixed by
\* the order.
pop(h) == { st \in h : \A other \in h : st.cost <= other.cost }

\* print_path_stats: total_real, the sum of the values of the cells of the
\* path but the first.
RECURSIVE total_real(_, _, _)
total_real(g, path, i) ==
    IF i > Len(path) THEN 0
    ELSE (IF i > 1 THEN get_val(g, get_xy(g, path[i])[1], get_xy(g, path[i])[2])
          ELSE 0) + total_real(g, path, i + 1)

\* find_path(&grid, maximize, false) is called: the state at the first test
\* of the while let loop.
PathInit ==
    /\ grid \in Grids
    /\ maximize \in BOOLEAN
    /\ dist = (0 :> 0)
    /\ heap = {[cost |-> 0, x |-> 0, y |-> 0]}
    /\ parents = <<>>
    /\ found = Null
    /\ ModPowIdle /\ DhIdle /\ CipherIdle /\ NetIdle

\* An iteration of the while let loop that pops the end cell: the path is
\* reconstructed and returned with the cost popped.
PathReturn ==
    /\ found = Null
    /\ \E st \in pop(heap) :
          /\ get_index(grid, st.x, st.y) = end_idx(grid)
          /\ heap' = heap \ {st}
          /\ found' = [path |-> reconstruct(parents, end_idx(grid)),
                       cost |-> st.cost]
    /\ UNCHANGED <<grid, maximize, dist, parents, mp_vars, dh_vars,
                   cipher_vars, net_vars>>

\* An iteration that pops another cell: if (cost > dist[current_idx]) it
\* continues, otherwise the four neighbours are relaxed.  (The continue is
\* never taken: entering a cell costs the same from every neighbour, so the
\* first State pushed for a cell already has its least cost.)
PathVisit ==
    /\ found = Null
    /\ \E st \in pop(heap) :
          /\ get_index(grid, st.x, st.y) # end_idx(grid)
          /\ IF st.cost > dist[get_index(grid, st.x, st.y)]
             THEN /\ heap' = heap \ {st}
                  /\ UNCHANGED <<dist, parents>>
             ELSE LET s == relax(grid, maximize, st, 1,
                                 [dist |-> dist, parents |-> parents,
                                  heap |-> heap \ {st}])
                  IN /\ dist' = s.dist
                     /\ parents' = s.parents
                     /\ heap' = s.heap
    /\ UNCHANGED <<grid, maximize, found, mp_vars, dh_vars, cipher_vars,
                   net_vars>>

\* The loop ends by the return above: every cell of a grid is reached from
\* the start, so the end cell is popped before the heap is empty and the
\* final (None, 0) is not reached.
PathNext == PathReturn \/ PathVisit

SpecPath == PathInit /\ [][PathNext]_vars

\* ------------------------------------------------------------------------
\* Reference arithmetic for the claims
\* ------------------------------------------------------------------------

\* The natural number of a limb value below 2^24.
IsSmall(x) == \A i \in 4..Len(x) : x[i] = 0
ToNat(x) == x[1] + 256 * x[2] + 65536 * x[3]

\* a^n by repeated multiplication, on TLC's integers.
RECURSIVE RepeatedMul(_, _)
RepeatedMul(a, n) == IF n = 0 THEN 1 ELSE a * RepeatedMul(a, n - 1)

\* (a^n) mod m by n multiplications on 128-bit limb values (a, m below 2^64).
RECURSIVE RepeatedMulMod(_, _, _)
RepeatedMulMod(a, n, m) ==
    IF n = 0 THEN Rem(U128(1), m)
    ELSE LET prev == RepeatedMulMod(a, n - 1, m)
         IN IF IsLimbs(prev) THEN Rem(wrapping_mul(prev, a), m) ELSE Null

\* The state after n steps of the generator.
RECURSIVE LcgIterate(_, _)
LcgIterate(state, n) ==
    IF n = 0 THEN state ELSE LcgStep(LcgIterate(state, n - 1))

\* The n-th keystream byte of a cipher made from seed.
KeystreamByte(seed, n) == TopByte(LcgIterate(Cast(seed, 4), n))

\* A u32 as its two 16-bit halves, and (state * LCG_A + LCG_C) mod 2^32 on
\* the halves, every intermediate value below 2^31.
Halves(x) == [lo |-> x[1] + 256 * x[2], hi |-> x[3] + 256 * x[4]]

LcgOnHalves(h) ==
    LET a_hi == LCG_A \div 65536
        a_lo == LCG_A % 65536
        low == h.lo * a_lo
        mid == (((h.hi * a_lo) % 65536) + ((h.lo * a_hi) % 65536)) % 65536
        lo == (low % 65536) + LCG_C
        hi == (low \div 65536) + mid + (lo \div 65536)
    IN [lo |-> lo % 65536, hi |-> hi % 65536]

\* s is a prefix of t.
IsPrefix(s, t) == Len(s) <= Len(t) /\ \A k \in 1..Len(s) : s[k] = t[k]

RECURSIVE Flatten(_)
Flatten(seqs) == IF seqs = <<>> THEN <<>> ELSE Head(seqs) \o Flatten(Tail(seqs))

\* What the calls on instance i were given, and what they returned.
Inputs(i) == Flatten([k \in 1..Len(calls[i]) |-> calls[i][k].data])
Outputs(i) == Flatten([k \in 1..Len(calls[i]) |-> calls[i][k].out])

OnlyNextByte(i) == \A k \in 1..Len(calls[i]) : calls[i][k].op = "next_byte"
OnlyProcess(i) == \A k \in 1..Len(calls[i]) : calls[i][k].op = "process"

\* ------------------------------------------------------------------------
\* Claims
\* ------------------------------------------------------------------------

\* C1: for all a, b and m > 1, mod_pow(a, b, m) is (a^b) mod m as repeated
\* multiplication computes it: on TLC's integers when a and m are small, on
\* 128-bit limb values otherwise.  So the result is below m, and it is 1
\* when b = 0.
C1_ModPowIsRepeatedMul ==
    mp_result # Null =>
        LET a == mp_args.base
            n == ToNat(mp_args.exp)
            m == mp_args.modulus
        IN /\ IF IsSmall(a) /\ IsSmall(m)
              THEN /\ IsSmall(mp_result)
                   /\ ToNat(mp_result) = RepeatedMul(ToNat(a), n) % ToNat(m)
              ELSE mp_result = Cast(RepeatedMulMod(Cast(a, 16), n, Cast(m, 16)), 8)
           /\ ~Geq(mp_result, m)
           /\ n = 0 => mp_result = U64(1)

\* C1's case: (2^64 - 1)^3 mod P, whose products need 128 bits, is computed.
C1_Witness ==
    /\ mp_args = [base |-> [i \in 1..8 |-> 255], exp |-> U64(3), modulus |-> P]
    /\ mp_result = <<33, 33, 138, 138, 235, 79, 191, 174>>

\* C2: both derivations of the shared secret agree, for every pair of private
\* keys; for the keys 5 and 7 they are mod_pow(2, 35, P) = 2^35.
C2_DhSymmetry ==
    (dh.secretA # Null /\ dh.secretB # Null) =>
        /\ dh.secretA = dh.secretB
        /\ (dh.privA = U64(5) /\ dh.privB = U64(7)) =>
              /\ dh.secretA = mod_pow(G, U64(35), P)
              /\ dh.secretA = <<0, 0, 0, 0, 8, 0, 0, 0>>

\* C2's case: the keys 0x8000000000000001 and 7, where every step reduces
\* modulo P, give the same secret on both sides.
C2_Witness ==
    /\ dh.privA = <<1, 0, 0, 0, 0, 0, 0, 128>>
    /\ dh.privB = U64(7)
    /\ dh.pubA = <<156, 89, 128, 170, 16, 105, 54, 213>>
    /\ dh.secretA = <<197, 223, 30, 57, 124, 160, 15, 8>>
    /\ dh.secretB = <<197, 223, 30, 57, 124, 160, 15, 8>>

\* The handshake of peer p is over: it is in the chat loop.
Established(p) == pc[p] \in {"read_line", "write_msg"}

\* C3: over the in-order connection, a peer that has finished the handshake
\* holds the public key its peer computed (sent most significant byte first),
\* and when both have finished their shared secrets are equal, for every pair
\* of private keys; for the keys 5 and 7 the secret is 2^35.
C3_SharedSecretAgreement ==
    \A p \in Peers :
        LET q == Peer(p)
        IN /\ (pc[p] = "read_key" /\ pc[q] \in {"connected", "read_key"}) =>
                chan[p] = [k \in 1..8 |-> public_key[p][9 - k]]
           /\ Established(p) =>
                /\ their_public_key[p] = public_key[q]
                /\ Established(q) =>
                      /\ shared_secret[p] = shared_secret[q]
                      /\ {private_key[p], private_key[q]} = {U64(5), U64(7)} =>
                            shared_secret[p] = <<0, 0, 0, 0, 8, 0, 0, 0>>

\* C3's case: the peers drew 0x8000000000000001 and 7, exchanged the public
\* keys over the connection, and both computed the same secret.
C3_Witness ==
    /\ Established("A") /\ Established("B")
    /\ private_key["A"] = <<1, 0, 0, 0, 0, 0, 0, 128>>
    /\ private_key["B"] = U64(7)
    /\ their_public_key["B"] = <<156, 89, 128, 170, 16, 105, 54, 213>>
    /\ their_public_key["A"] = U64(128)
    /\ shared_secret["A"] = <<197, 223, 30, 57, 124, 160, 15, 8>>
    /\ shared_secret["B"] = <<197, 223, 30, 57, 124, 160, 15, 8>>

HandshakeDone == Established("A") /\ Established("B")

\* A step of the key exchange of either peer.
HandshakeStep ==
    \E p \in Peers :
        \/ SendPublicKey(p)
        \/ ReadPublicKey(p)
        \/ pc[p] = "write_key" /\ WriteMore(p)

\* C4: with room for the 8 bytes of a key in each direction, the key exchange
\* never deadlocks (until both peers have finished, a key exchange step is
\* enabled), and when every peer keeps taking the steps it can take both
\* peers eventually finish the handshake.
C4_HandshakeProgress ==
    /\ [](HandshakeDone \/ ENABLED <<HandshakeStep>>_vars)
    /\ <>HandshakeDone

\* C4's case: both peers have sent their keys before either read, then both
\* finished the handshake, and no message has been sent yet.
C4_Witness ==
    /\ HandshakeDone
    /\ frames = [p \in Peers |-> 0]
    /\ chan = [p \in Peers |-> <<>>]
    /\ \A p \in Peers : keybuf[p] = to_be_bytes(public_key[Peer(p)])

\* C5: round trip.  When the first call on an instance is process(M) and the
\* first call on the other instance, made from the same seed, is process of
\* what that call returned, the second call returns M.
C5_RoundTrip ==
    \A i \in Instances :
        LET j == Other(i)
        IN (/\ calls[i] # <<>> /\ calls[j] # <<>>
            /\ calls[i][1].op = "process" /\ calls[j][1].op = "process"
            /\ calls[j][1].data = calls[i][1].out)
           => calls[j][1].out = calls[i][1].data

\* C5's case: "Hi" under seed 1 is encrypted to 09 ff and decrypted to "Hi".
C5_Witness ==
    /\ cseed = U64(1)
    /\ Len(calls[1]) = 1 /\ Len(calls[2]) = 1
    /\ calls[1][1].op = "process" /\ calls[1][1].data = <<72, 105>>
    /\ calls[1][1].out = <<9, 255>>
    /\ calls[2][1].op = "process" /\ calls[2][1].data = <<9, 255>>
    /\ calls[2][1].out = <<72, 105>>

\* C6: keystream lockstep.  On the in-order connection, the keystream bytes
\* a peer's receiver thread has used are a prefix of those the other peer's
\* sender has used, the text it has printed is a prefix of the text the other
\* peer has encrypted, and its counter (the number of bytes it decrypted) is
\* at most the sender's counter (the number of bytes it encrypted).
C6_KeystreamLockstep ==
    \A p \in Peers :
        LET q == Peer(p)
        IN /\ IsPrefix(key_in[p], key_out[q])
           /\ IsPrefix(recv_plain[p], sent_plain[q])
           /\ decryptor[p].count <= cipher[q].count
           /\ decryptor[p].count = Len(recv_plain[p])
           /\ cipher[q].count = Len(sent_plain[q])

\* C6's case: A has sent "Hi" and "!", B has sent nothing and has decrypted
\* "Hi" so far, its counter one behind A's.
C6_Witness ==
    /\ sent_plain["A"] = <<72, 105, 33>>
    /\ recv_plain["B"] = <<72, 105>>
    /\ key_in["B"] = SubSeq(key_out["A"], 1, 2)
    /\ decryptor["B"].count = 2 /\ cipher["A"].count = 3

\* C7 as stated: once a receiver's read has split a send or taken several
\* sends at once, a byte it decrypted differs from the byte the sender
\* encrypted at that position.
C7_PartialReadsMisalign ==
    \A p \in Peers :
        reads[p] # {} =>
            \E k \in 1..Len(recv_plain[p]) :
                \/ k > Len(sent_plain[Peer(p)])
                \/ recv_plain[p][k] # sent_plain[Peer(p)][k]

\* C7, amended: partial reads do not break the alignment.  After reads that
\* split a send or took several sends at once, every byte the receiver has
\* decrypted still equals the byte the sender encrypted at that position.
C7_PartialReadsStayAligned ==
    \A p \in Peers :
        reads[p] # {} =>
            /\ Len(recv_plain[p]) <= Len(sent_plain[Peer(p)])
            /\ \A k \in 1..Len(recv_plain[p]) :
                  recv_plain[p][k] = sent_plain[Peer(p)][k]

\* C7's case: A sent "Hi" and then "!"; B read "H" alone, then "i" and "!"
\* together, and has decrypted "Hi!".
C7_Witness ==
    /\ sent_plain["A"] = <<72, 105, 33>>
    /\ frames["A"] = 2
    /\ reads["B"] = {"split", "coalesced"}
    /\ recv_plain["B"] = <<72, 105, 33>>

C9_StepCount ==
    /\ \A i \in Instances :
          /\ \A k \in 1..Len(calls[i]) :
                LET c == calls[i][k]
                IN /\ c.op = "process" =>
                        /\ c.after.count = c.before.count + Len(c.data)
                        /\ Len(c.out) = Len(c.data)
                   /\ c.op = "next_byte" => c.after.count = c.before.count + 1
                   /\ c.after.count >= c.before.count
                   /\ c.before = IF k = 1 THEN LcgCipher_new(cseed)
                                 ELSE calls[i][k - 1].after
          /\ ciph[i] = IF calls[i] = <<>> THEN LcgCipher_new(cseed)
                       ELSE calls[i][Len(calls[i])].after
    /\ \A i \in Instances :
          (OnlyProcess(i) /\ OnlyProcess(Other(i))
              /\ IsPrefix(Inputs(i), Inputs(Other(i))))
          => IsPrefix(Outputs(i), Outputs(Other(i)))

\* C9's case: process("H") then process("i") on one instance, process("Hi")
\* on the other; the second call started at position 1.
C9_Witness ==
    /\ cseed = U64(1)
    /\ Len(calls[1]) = 2 /\ Len(calls[2]) = 1
    /\ calls[1][1].op = "process" /\ calls[1][1].data = <<72>>
    /\ calls[1][2].op = "process" /\ calls[1][2].data = <<105>>
    /\ calls[1][2].before.count = 1 /\ calls[1][2].after.count = 2
    /\ calls[2][1].op = "process" /\ calls[2][1].data = <<72, 105>>
    /\ calls[2][1].out = <<9, 255>>
    /\ calls[1][1].out \o calls[1][2].out = <<9, 255>>

\* C10: a next_byte call takes state to (state * 1103515245 + 12345) mod 2^32
\* (computed on 16-bit halves), returns the top byte of the new state and
\* adds one to the counter; from state 0x1234ABCD the first three calls give
\* BA53CC82, 0C89DF93, 97852BD0 and return BA, 0C, 97.
C10_NextByte ==
    \A i \in Instances :
        /\ \A k \in 1..Len(calls[i]) :
              LET c == calls[i][k]
              IN c.op = "next_byte" =>
                    /\ Halves(c.after.state) = LcgOnHalves(Halves(c.before.state))
                    /\ c.out = <<Halves(c.after.state).hi \div 256>>
                    /\ c.after.count = c.before.count + 1
        /\ (Cast(cseed, 4) = <<205, 171, 52, 18>> /\ OnlyNextByte(i)) =>
              /\ Len(calls[i]) >= 1 =>
                    /\ calls[i][1].after.state = <<130, 204, 83, 186>>
                    /\ calls[i][1].out = <<186>>
              /\ Len(calls[i]) >= 2 =>
                    /\ calls[i][2].after.state = <<147, 223, 137, 12>>
                    /\ calls[i][2].out = <<12>>
              /\ Len(calls[i]) >= 3 =>
                    /\ calls[i][3].after.state = <<208, 43, 133, 151>>
                    /\ calls[i][3].out = <<151>>

\* C10's case: three next_byte calls on an instance made from a seed whose
\* low 32 bits are 0x1234ABCD.
C10_Witness ==
    /\ Cast(cseed, 4) = <<205, 171, 52, 18>>
    /\ Len(calls[1]) = 3 /\ OnlyNextByte(1)
    /\ ciph[1] = [state |-> <<208, 43, 133, 151>>, count |-> 3]

EmptyLine(input) == input \in { <<10>>, <<13, 10>> }

\* C13: empty messages are never transmitted.  A turn of the main loop that
\* reads an empty line writes no byte to the connection, leaves the sender's
\* cipher (state and counter) and the text encrypted unchanged, counts as a
\* skipped line and leaves the loop at read_line.
C13_EmptyLinesNotSent ==
    [][\A p \in Peers :
          /\ \A input \in StdinLines :
                (EmptyLine(input) /\ SendLine(p, input)) =>
                    /\ skipped'[p] = skipped[p] + 1
                    /\ wire'[p] = wire[p] /\ chan'[p] = chan[p]
                    /\ outbuf'[p] = outbuf[p]
                    /\ cipher'[p] = cipher[p]
                    /\ sent_plain'[p] = sent_plain[p]
                    /\ pc'[p] = "read_line"
          /\ skipped'[p] # skipped[p] =>
                /\ wire'[p] = wire[p] /\ outbuf'[p] = outbuf[p]
                /\ cipher'[p] = cipher[p]]_vars

\* C13's case: A has sent "Hi" and then skipped an empty line: 8 + 2 bytes
\* written, cipher at position 2, back at read_line.
C13_Witness ==
    /\ skipped["A"] = 1 /\ frames["A"] = 1
    /\ sent_plain["A"] = <<72, 105>>
    /\ Len(wire["A"]) = 10 /\ outbuf["A"] = <<>>
    /\ cipher["A"].count = 2
    /\ pc["A"] = "read_line"

\* C14 as stated: once the receiver thread of a peer has left its loop (on
\* Ok(0) or on Err), the peer's main loop takes no further step: it reads no
\* line, encrypts nothing and writes nothing.
C14_ReceiverStopEndsSender ==
    [][\A p \in Peers :
          rpc[p] = "stopped" =>
              /\ cipher'[p] = cipher[p]
              /\ sent_plain'[p] = sent_plain[p]
              /\ wire'[p] = wire[p] /\ outbuf'[p] = outbuf[p]
              /\ frames'[p] = frames[p] /\ skipped'[p] = skipped[p]]_vars

\* C15 as stated: when a peer's stdin has reached end of input, its main
\* loop ends and the peer reaches Closed.
C15_EndOfInputCloses ==
    \A p \in Peers : stdin_eof[p] ~> (pc[p] = "closed")

\* C16: when write_all of a chat message returns an error the sender stops:
\* the peer is in its closed state from then on, and afterwards it reads no
\* line (none is skipped or framed), encrypts nothing (the outbound cipher
\* and the plaintext encrypted so far stay as they are) and writes nothing.
C16_SendErrorStopsSender ==
    /\ [](\A p \in Peers : "chat_send" \in io_errors[p] => pc[p] = "closed")
    /\ [][\A p \in Peers :
             "chat_send" \in io_errors[p] =>
                 /\ pc'[p] = "closed"
                 /\ cipher'[p] = cipher[p]
                 /\ sent_plain'[p] = sent_plain[p] /\ key_out'[p] = key_out[p]
                 /\ frames'[p] = frames[p] /\ skipped'[p] = skipped[p]
                 /\ wire'[p] = wire[p] /\ outbuf'[p] = outbuf[p]]_vars

\* A's write_all has failed for a line A had encrypted, and B's receiver has
\* since read the end of the stream.
C16_Witness ==
    /\ "chat_send" \in io_errors["A"] /\ pc["A"] = "closed"
    /\ frames["A"] = 1 /\ cipher["A"].count = 2
    /\ rpc["B"] = "stopped"

\* The handshake of p was aborted by an I/O error.
HandshakeFailed(p) ==
    "handshake_send" \in io_errors[p] \/ "handshake_recv" \in io_errors[p]

\* C17: when the handshake's write_all fails, or its read_exact gets fewer
\* than 8 bytes or an error, the handshake is aborted: the peer has panicked
\* and stays so, no peer key and no shared secret is derived, neither cipher
\* is built, the receiver thread is never spawned, no line is read and
\* nothing is encrypted, and all the peer has ever written is a prefix of
\* its 8 public key bytes; the key is not written or read again.
C17_HandshakeFailureAborts ==
    /\ [](\A p \in Peers :
             HandshakeFailed(p) =>
                 /\ pc[p] = "panicked"
                 /\ their_public_key[p] = Null /\ shared_secret[p] = Null
                 /\ cipher[p] = NoCipher /\ decryptor[p] = NoCipher
                 /\ rpc[p] = "none"
                 /\ sent_plain[p] = <<>> /\ frames[p] = 0 /\ skipped[p] = 0
                 /\ outbuf[p] = <<>>
                 /\ IsPrefix(wire[p], to_be_bytes(public_key[p])))
    /\ [][\A p \in Peers :
             HandshakeFailed(p) =>
                 /\ pc'[p] = "panicked"
                 /\ wire'[p] = wire[p] /\ keybuf'[p] = keybuf[p]]_vars

\* A's write_all of its key failed after 4 bytes; B read those 4 bytes, then
\* the end of the stream, and its read_exact failed.
C17_Witness ==
    /\ "handshake_send" \in io_errors["A"] /\ Len(wire["A"]) = 4
    /\ "handshake_recv" \in io_errors["B"] /\ Len(keybuf["B"]) = 4
    /\ pc["A"] = "panicked" /\ pc["B"] = "panicked"

\* C18: the order of the handshake on the wire. The first 8 bytes a peer
\* writes are its public key, most significant byte first; it has written
\* all 8 before it reads a byte; what it reads as the peer's key is exactly
\* the first 8 bytes the peer wrote, most significant byte first; and it
\* writes no byte of ciphertext before it has read all 8.
C18_HandshakeWireOrder ==
    \A p \in Peers :
        /\ \A k \in 1..Min(Len(wire[p]), KeyBufLen) :
               wire[p][k] = public_key[p][KeyBufLen + 1 - k]
        /\ keybuf[p] # <<>> => Len(wire[p]) >= KeyBufLen
        /\ Len(keybuf[p]) <= KeyBufLen
        /\ IsPrefix(keybuf[p], wire[Peer(p)])
        /\ their_public_key[p] # Null =>
               /\ Len(keybuf[p]) = KeyBufLen
               /\ \A k \in 1..KeyBufLen :
                      keybuf[p][k] = their_public_key[p][KeyBufLen + 1 - k]
        /\ Len(wire[p]) > KeyBufLen =>
               /\ Len(keybuf[p]) = KeyBufLen
               /\ their_public_key[p] # Null

\* A has written its key and a frame of ciphertext after it, having read
\* B's key; the key of A reads differently from either end.
C18_Witness ==
    /\ Len(wire["A"]) > KeyBufLen
    /\ Len(keybuf["A"]) = KeyBufLen
    /\ wire["A"][1] # wire["A"][KeyBufLen]

\* The text of a line as read_line returns it, without its terminator.
LineText(input) ==
    LET n == Len(input)
    IN IF n >= 2 /\ input[n - 1] = 13 /\ input[n] = 10 THEN SubSeq(input, 1, n - 2)
       ELSE IF n >= 1 /\ input[n] = 10 THEN SubSeq(input, 1, n - 1)
       ELSE input

\* The text between the first and the last byte of s that are not whitespace.
Stripped(s) ==
    IF \A k \in 1..Len(s) : IsSpace(s[k]) THEN <<>>
    ELSE LET first == CHOOSE i \in 1..Len(s) :
                          ~IsSpace(s[i]) /\ \A k \in 1..(i - 1) : IsSpace(s[k])
             last == CHOOSE j \in 1..Len(s) :
                         ~IsSpace(s[j]) /\ \A k \in (j + 1)..Len(s) : IsSpace(s[k])
         IN SubSeq(s, first, last)

\* a ^ b as the byte whose every bit is the sum mod 2 of the bits of a and b.
XorByBits(a, b) ==
    CHOOSE c \in Byte :
        \A k \in 0..7 :
            (c \div 2^k) % 2 = (((a \div 2^k) % 2) + ((b \div 2^k) % 2)) % 2

\* The step of p has written exactly one frame for text: as many bytes as
\* text has, the i-th being text[i] xor the keystream byte at position
\* (outbound counter before the step + i), and the counter has advanced by
\* the length of text.
OneFrameFor(p, text) ==
    LET before == cipher[p].count
        frame == [i \in 1..Len(text) |->
                     XorByBits(text[i], KeystreamByte(shared_secret[p], before + i))]
    IN /\ frames'[p] = frames[p] + 1
       /\ wire'[p] \o outbuf'[p] = (wire[p] \o outbuf[p]) \o frame
       /\ cipher'[p].count = before + Len(text)

C20_ErrorsReported ==
    \A p \in Peers : io_errors[p] \subseteq reported[p]

ConnState(p) ==
    IF pc[p] \in {"connected", "write_key", "read_key"} THEN "Handshaking"
    ELSE IF pc[p] \in {"read_line", "write_msg"} THEN "Established"
    ELSE "Closed"

\* The place of a state in Disconnected, Handshaking, Established, Closing,
\* Closed.
StateRank(state) ==
    CASE state = "Disconnected" -> 0
      [] state = "Handshaking" -> 1
      [] state = "Established" -> 2
      [] state = "Closing" -> 3
      [] state = "Closed" -> 4

\* ConnState(p) in the next state.
ConnStateNext(p) ==
    IF pc'[p] \in {"connected", "write_key", "read_key"} THEN "Handshaking"
    ELSE IF pc'[p] \in {"read_line", "write_msg"} THEN "Established"
    ELSE "Closed"

\* C22: the state of a connection only advances along Disconnected,
\* Handshaking, Established, Closing, Closed.  An Established peer has
\* written its 8 key bytes and read the 8 of its peer; no step goes back to
\* an earlier state, so none leaves Established or Closed for Handshaking;
\* the keys and the secret of an Established or Closed peer never change;
\* and a Closed peer stays as it is.
C22_StateOnlyAdvances ==
    /\ [](\A p \in Peers :
             ConnState(p) = "Established" =>
                 /\ Len(wire[p]) >= KeyBufLen
                 /\ SubSeq(wire[p], 1, KeyBufLen) = to_be_bytes(public_key[p])
                 /\ Len(keybuf[p]) = KeyBufLen
                 /\ their_public_key[p] = from_be_bytes(keybuf[p]))
    /\ [][\A p \in Peers :
             /\ StateRank(ConnStateNext(p)) >= StateRank(ConnState(p))
             /\ ConnState(p) # "Handshaking" =>
                    /\ private_key'[p] = private_key[p]
                    /\ public_key'[p] = public_key[p]
                    /\ their_public_key'[p] = their_public_key[p]
                    /\ shared_secret'[p] = shared_secret[p]
                    /\ keybuf'[p] = keybuf[p]
             /\ ConnState(p) = "Closed" => pc'[p] = pc[p]]_vars

\* A went from Handshaking through Established to Closed (by a send error)
\* while B is Established and has decrypted something.
C22_Witness ==
    /\ pc["A"] = "closed" /\ shared_secret["A"] # Null
    /\ ConnState("B") = "Established"
    /\ recv_plain["B"] # <<>>

\* Cells i and j of g are neighbours: one step apart along x or along y.
Adjacent(g, i, j) ==
    LET dx == (i % g.width) - (j % g.width)
        dy == (i \div g.width) - (j \div g.width)
    IN dx * dx + dy * dy = 1

\* Every simple 4-connected path of g that begins with path and ends at the
\* last cell of g.
RECURSIVE SimplePathsFrom(_, _)
SimplePathsFrom(g, path) ==
    IF path[Len(path)] = g.width * g.height - 1 THEN {path}
    ELSE UNION { SimplePathsFrom(g, Append(path, n)) :
                    n \in { c \in DOMAIN g.cells :
                              /\ Adjacent(g, path[Len(path)], c)
                              /\ \A k \in 1..Len(path) : path[k] # c } }

\* The simple 4-connected paths from cell (0,0) to cell (width-1, height-1).
SimplePaths(g) == SimplePathsFrom(g, <<0>>)

\* The sum of the values of the cells a path enters, its first cell excluded.
RECURSIVE EnteredSumFrom(_, _, _)
EnteredSumFrom(g, path, k) ==
    IF k > Len(path) THEN 0 ELSE g.cells[path[k]] + EnteredSumFrom(g, path, k + 1)

EnteredSum(g, path) == EnteredSumFrom(g, path, 2)

\* C23: with maximize = false, find_path on a grid of at least one cell
\* returns a path (the loop never runs out of cells to pop); the path is a
\* 4-connected path from cell (0,0) to cell (width-1, height-1); the cost
\* returned is the sum of the values of the cells the path enters; and no
\* 4-connected path between the two cells has a smaller sum (cell values
\* are not negative, so a path of least sum among the simple ones has the
\* least sum of all).
C23_MinimumCostPath ==
    ~maximize =>
        /\ found = Null => heap # {}
        /\ found # Null =>
               /\ found.path \in SimplePaths(grid)
               /\ found.cost = EnteredSum(grid, found.path)
               /\ \A q \in SimplePaths(grid) : EnteredSum(grid, q) >= found.cost

\* On the grid 00 FF 01 / 00 00 00 the path returned goes down and along the
\* second row, at cost 0, and not through FF.
C23_Witness ==
    /\ ~maximize
    /\ grid.width = 3 /\ grid.height = 2
    /\ grid.cells = [i \in 0..5 |-> IF i = 1 THEN 255 ELSE IF i = 2 THEN 1 ELSE 0]
    /\ found # Null
    /\ found.path = <<0, 3, 4, 5>> /\ found.cost = 0

\* C24 as stated: with maximize = true the path find_path returns has the
\* greatest total of entered cell values (the total print_path_stats shows)
\* among all simple 4-connected paths from (0,0) to (width-1, height-1).
C24_MaximumCostPath ==
    (maximize /\ found # Null) =>
        \A q \in SimplePaths(grid) :
            EnteredSum(grid, q) <= total_real(grid, found.path, 1)

\* C25: constructing a cipher consumes no keystream.  Right after
\* LcgCipher::new(seed) the state is the low 32 bits of the seed and the
\* counter is 0, and the k-th byte next_byte returns on the instance, for k
\* up to 10, is the k-th byte new previewed; the counter is then k.
C25_NewConsumesNoKeystream ==
    /\ calls[1] = <<>> =>
           /\ ciph[1].state = <<cseed[1], cseed[2], cseed[3], cseed[4]>>
           /\ ciph[1].count = 0
    /\ Len(new_preview(cseed)) = PreviewLen
    /\ \A k \in 1..Len(calls[1]) :
           /\ calls[1][k].out = <<new_preview(cseed)[k]>>
           /\ calls[1][k].after.count = k

\* From the seed 0xD87FA3E21234ABCD ten bytes have been drawn, the first of
\* them BA, 0C, 97.
C25_Witness ==
    /\ cseed = <<205, 171, 52, 18, 226, 163, 127, 216>>
    /\ Len(calls[1]) = PreviewLen
    /\ calls[1][1].out = <<186>> /\ calls[1][2].out = <<12>>
    /\ calls[1][3].out = <<151>>
    /\ ciph[1].count = PreviewLen

\* The ciphertext p has sent: what it wrote, or has still to write, after
\* the 8 bytes of its public key.
Ciphertext(p) ==
    LET written == wire[p] \o outbuf[p]
    IN IF Len(written) <= KeyBufLen THEN <<>>
       ELSE SubSeq(written, KeyBufLen + 1, Len(written))

\* C26: the keystream is reused across the directions.  Whatever keys the
\* peers drew, the k-th keystream byte A's sender used equals the k-th
\* keystream byte B's sender used, both being the k-th byte of the stream
\* of the one shared secret; so the k-th ciphertext byte sent by A xor the
\* k-th ciphertext byte sent by B equals the k-th plaintext byte of A xor
\* the k-th plaintext byte of B.
C26_KeystreamReusedAcrossDirections ==
    /\ Len(Ciphertext("A")) = Len(sent_plain["A"])
    /\ Len(Ciphertext("B")) = Len(sent_plain["B"])
    /\ \A k \in 1..Min(Len(sent_plain["A"]), Len(sent_plain["B"])) :
           /\ key_out["A"][k] = key_out["B"][k]
           /\ key_out["A"][k] = KeystreamByte(shared_secret["A"], k)
           /\ XorByBits(Ciphertext("A")[k], Ciphertext("B")[k])
                  = XorByBits(sent_plain["A"][k], sent_plain["B"][k])

\* A has sent "Hi" and B has sent "!": the first ciphertext bytes of the two
\* directions differ by 'H' xor '!' = 0x69.
C26_Witness ==
    /\ sent_plain["A"] = <<72, 105>> /\ sent_plain["B"] = <<33>>
    /\ Len(Ciphertext("A")) = 2 /\ Len(Ciphertext("B")) = 1
    /\ XorByBits(Ciphertext("A")[1], Ciphertext("B")[1]) = 105
====
